---- MODULE Spec2Model ----
(***************************************************************************)
(* The three Pulumi programs of the repository (aws, shared, api) as the   *)
(* resource graphs they declare, run by a provisioning engine that creates *)
(* a declared resource once everything it references has been created, in  *)
(* any order the references allow.                                         *)
(*                                                                         *)
(* A node of a graph is one declaration of a program: a resource, a        *)
(* lookup, a stack reference, an apply callback over a stack reference's   *)
(* output, or the scoped provider. A run of a project executes the nodes   *)
(* of its program for the stack selected at its start.                     *)
(***************************************************************************)
EXTENDS Naturals, FiniteSets, Sequences, TLC

VARIABLES
  deployed,  \* the stacks <<project, stack>> whose outputs are published
  runs,      \* per stack <<project, stack>>: the state of its current (or last) run
  cloud,     \* the resources that exist, with the account they were made in
  started    \* how many deployments the operator has started

vars == <<deployed, runs, cloud, started>>

(***************************************************************************)
(* Inputs of a run: the project name (pulumi.getProject()), the stack      *)
(* (pulumi.getStack()), and the project's configuration, which is taken to *)
(* hold every key the program requires (region, cfZoneId, domain, the      *)
(* secret).  A provider refuses to create a resource under an identity     *)
(* that a resource of another declaration holds; its calls succeed         *)
(* otherwise.                                                              *)
(***************************************************************************)

\* Service projects: "api" is the repository's; "web" is a second service
\* built from the same program under another project name and domain.
Services == {"api", "web"}

Consumers == {"shared"} \cup Services

Projects == {"aws"} \cup Consumers

\* The names every JavaScript object inherits a property for (Object.prototype).
InheritedNames ==
  {"constructor", "toString", "toLocaleString", "valueOf", "hasOwnProperty", "isPrototypeOf",
   "propertyIsEnumerable", "__proto__", "__defineGetter__", "__defineSetter__",
   "__lookupGetter__", "__lookupSetter__"}

\* The stacks an operator may select for the shared and service projects: one the
\* Accounts Mapping has a key for, one it has none for, and one that is no key of
\* the mapping but the name of an inherited property.
Stacks == {"dev", "staging", "constructor"}

\* The AWS project only has a single stack.
AwsStack == "prod"

\* The number of DKIM tokens SES hands out for a domain identity.
NumDkimTokens == 2

\* The number of deployments the operator starts after the initial state.
MaxDeploys == 2

\* The number of them that are of a consuming project (shared or a service)
\* when the deployments start from nothing.
MaxConsumerDeploys == 1

\* The management account whose ambient credentials every default provider uses.
RootAccount == "000"

\* The identifier AWS assigns to the development account.
DevAccountId == "111"

\* The JavaScript value undefined.
Undefined == "undefined"

\* api/index.ts: config.require("domain"), per project
domain(p) == IF p = "api" THEN "api.example.com" ELSE "web.example.com"

\* shared/index.ts: config.require("cfZoneId"), per stack: the zone of the
\* environment, which a service reads as the shared stack's output cloudflareZone.
cfZoneId(stack) == <<"zone", stack>>

(***************************************************************************)
(* The Account project (src/unnamed/part_000)                              *)
(***************************************************************************)

\* pulumi.interpolate`arn:aws:iam::${devAccount.id}:role/OrganizationalAccountAccessRole`
RoleArn(id) == [account |-> id, role |-> "OrganizationalAccountAccessRole"]

\* export const accounts: Record<string, Account>
accounts == [dev |-> [id |-> DevAccountId, arn |-> RoleArn(DevAccountId)]]

(***************************************************************************)
(* Declarations.  Each node: kind, the provider it goes through (via), the *)
(* nodes it references (deps) and the stack-reference outputs it reads.    *)
(* An apply callback is a node of its own: it runs once the output it is   *)
(* applied to is known, and the resource that takes its result is created  *)
(* after it.                                                               *)
(***************************************************************************)

N(kind, via, deps, reads) == [kind |-> kind, via |-> via, deps |-> deps, reads |-> reads]

NoReads == {}

AwsProgram ==
  [ devAccountEmailId |-> N("resource", "random", {}, NoReads),
    devAccount        |-> N("resource", "default", {"devAccountEmailId"}, NoReads) ]

\* `${project}-ses-dkim-${stack}-${index}`: the record the callback over
\* dkimTokens declares for the token at an index.
DkimRecord(index) == "sesDomainDkimRecords_" \o ToString(index)

DkimRecords == {DkimRecord(index) : index \in 0 .. (NumDkimTokens - 1)}

SharedProgram ==
  [ awsMainStack   |-> N("stackref", "engine", {}, NoReads),
    accountId      |-> N("apply", "engine", {"awsMainStack"}, {<<"awsMainStack", "accounts">>}),
    roleArn        |-> N("apply", "engine", {"awsMainStack"}, {<<"awsMainStack", "accounts">>}),
    provider       |-> N("provider", "engine", {"accountId", "roleArn"}, NoReads),
    cloudflareZone |-> N("lookup", "cloudflare", {}, NoReads),
    sesDomainIdentity |-> N("resource", "scoped", {"provider", "cloudflareZone"}, NoReads),
    sesDomainDkim  |-> N("resource", "scoped", {"provider", "sesDomainIdentity"}, NoReads),
    sesDomainDkimRecords |-> N("callback", "engine", {"sesDomainDkim"}, NoReads),
    sesRecordVerificationRecord |->
        N("resource", "cloudflare", {"sesDomainIdentity", "cloudflareZone"}, NoReads),
    sesDomainVerification |->
        N("resource", "scoped", {"provider", "sesDomainIdentity", "sesRecordVerificationRecord"}, NoReads),
    certificate    |-> N("resource", "scoped", {"provider", "cloudflareZone"}, NoReads),
    certificateValidation |-> N("resource", "scoped", {"provider", "certificate"}, NoReads),
    certificateValidationRecord |->
        N("resource", "cloudflare", {"certificate", "cloudflareZone"}, NoReads),
    vpc            |-> N("resource", "scoped", {"provider"}, NoReads),
    loadBalancerSecurityGroup |-> N("resource", "scoped", {"provider", "vpc"}, NoReads),
    loadBalancer   |-> N("resource", "scoped", {"provider", "loadBalancerSecurityGroup", "vpc"}, NoReads),
    listener       |-> N("resource", "scoped", {"provider", "loadBalancer", "certificate"}, NoReads),
    ecsCluster     |-> N("resource", "scoped", {"provider"}, NoReads),
    rdsSecurityGroup |-> N("resource", "scoped", {"provider", "vpc"}, NoReads),
    rdsSubnetGroup |-> N("resource", "scoped", {"provider", "vpc"}, NoReads),
    rdsInstanceMasterPassword |-> N("resource", "random", {}, NoReads),
    availabilityZones |-> N("lookup", "default", {}, NoReads),
    rdsCluster     |->
        N("resource", "scoped",
          {"provider", "rdsSubnetGroup", "rdsSecurityGroup", "rdsInstanceMasterPassword",
           "availabilityZones"}, NoReads),
    rdsInstance    |-> N("resource", "scoped", {"provider", "rdsCluster", "rdsSubnetGroup"}, NoReads) ]
  @@ [n \in DkimRecords |-> N("resource", "cloudflare", {"sesDomainDkimRecords", "cloudflareZone"}, NoReads)]

ApiProgram ==
  [ awsMainStack   |-> N("stackref", "engine", {}, NoReads),
    shared         |-> N("stackref", "engine", {}, NoReads),
    accountId      |-> N("apply", "engine", {"awsMainStack"}, {<<"awsMainStack", "accounts">>}),
    roleArn        |-> N("apply", "engine", {"awsMainStack"}, {<<"awsMainStack", "accounts">>}),
    provider       |-> N("provider", "engine", {"accountId", "roleArn"}, NoReads),
    secretAsArns   |-> N("resource", "scoped", {"provider"}, NoReads),
    targetGroup_vpcId |-> N("callback", "engine", {"shared"}, {<<"shared", "vpc">>}),
    targetGroup    |-> N("resource", "scoped", {"provider", "targetGroup_vpcId"}, NoReads),
    listenerRule_listenerArn |-> N("callback", "engine", {"shared"}, {<<"shared", "listener">>}),
    listenerRule   |->
        N("resource", "scoped", {"provider", "listenerRule_listenerArn", "targetGroup"}, NoReads),
    repository     |-> N("resource", "scoped", {"provider"}, NoReads),
    image          |-> N("resource", "scoped", {"provider", "repository"}, NoReads),
    executionRole  |-> N("resource", "scoped", {"provider"}, NoReads),
    ssmPolicyAttachment |-> N("resource", "scoped", {"provider", "executionRole"}, NoReads),
    taskExecutionPolicyAttachment |-> N("resource", "scoped", {"provider", "executionRole"}, NoReads),
    securityGroup_vpcId |-> N("callback", "engine", {"shared"}, {<<"shared", "vpc">>}),
    securityGroup  |-> N("resource", "scoped", {"provider", "securityGroup_vpcId"}, NoReads),
    appService_cluster |-> N("callback", "engine", {"shared"}, {<<"shared", "ecsCluster">>}),
    appService_subnets |-> N("callback", "engine", {"shared"}, {<<"shared", "vpc">>}),
    appService     |->
        N("resource", "scoped",
          {"provider", "appService_cluster", "appService_subnets", "securityGroup",
           "executionRole", "secretAsArns", "image", "targetGroup"}, NoReads),
    appDomainRecord_zoneId |-> N("callback", "engine", {"shared"}, {<<"shared", "cloudflareZone">>}),
    appDomainRecord_value |-> N("callback", "engine", {"shared"}, {<<"shared", "loadBalancer">>}),
    appDomainRecord |->
        N("resource", "cloudflare", {"appDomainRecord_zoneId", "appDomainRecord_value"}, NoReads) ]

Program(p) == IF p = "aws" THEN AwsProgram ELSE IF p = "shared" THEN SharedProgram ELSE ApiProgram

Nodes(p) == DOMAIN Program(p)

\* Deps with the VPC made to wait for the load balancer's security group, which
\* is created in the VPC.
DepsWithCycle(p, n) ==
  Program(p)[n].deps \cup (IF p = "shared" /\ n = "vpc" THEN {"loadBalancerSecurityGroup"} ELSE {})

Deps(p, n) == Program(p)[n].deps

\* The outputs a project exports.
Exports(proj) ==
  IF proj = "aws" THEN {"devAccount", "accounts"}
  ELSE IF proj = "shared"
       THEN {"provider", "cloudflareZone", "certificate", "vpc", "loadBalancer", "listener",
             "ecsCluster", "rdsCluster", "rdsInstance"}
       ELSE {"provider", "image"}

\* new pulumi.StackReference("example/aws/prod") and (`example/shared/${stack}`)
Target(ref, stack) == IF ref = "awsMainStack" THEN <<"aws", AwsStack>> ELSE <<"shared", stack>>

RefNames == {"awsMainStack", "shared"}

\* The stacks that can be deployed: the stack of the aws project and every stack
\* of the shared and service projects.
Deployments == {<<"aws", AwsStack>>} \cup (Consumers \X Stacks)

(***************************************************************************)
(* State of a run                                                          *)
(***************************************************************************)

NoArn == [account |-> "", role |-> ""]

\* The role of a provider whose roleArn is undefined.
UndefinedArn == [account |-> Undefined, role |-> Undefined]

\* aws.Provider("scoped-provider", {allowedAccountIds, assumeRole: {roleArn}})
NoProvider == [allowedAccountIds |-> {}, roleArn |-> NoArn]

IdleRun ==
  [ status |-> "idle", done |-> {}, bad |-> {},
    snap |-> [r \in RefNames |-> "unread"], provider |-> NoProvider, log |-> {} ]

Init ==
  /\ deployed = {}
  /\ runs = [d \in Deployments |-> IdleRun]
  /\ cloud = {}
  /\ started = 0

Running(d) == runs[d].status = "running"

\* A node is ready once every node it references is done.
Ready(d, n) ==
  /\ Running(d)
  /\ n \in Nodes(d[1]) \ (runs[d].done \cup runs[d].bad)
  /\ Deps(d[1], n) \subseteq runs[d].done

\* awsMainStack.getOutput("accounts"), shared.getOutput("vpc"), ...: the value the
\* reference read when it was resolved; defined when the stack had published it.
GetOutput(run, stack, ref, out) ==
  /\ run.snap[ref] = "ok"
  /\ out \in Exports(Target(ref, stack)[1])

ReadLog(run, stack, n, p) ==
  {[ref |-> rd[1], out |-> rd[2], defined |-> GetOutput(run, stack, rd[1], rd[2])] :
     rd \in Program(p)[n].reads}

\* accounts[stack] is undefined for a stack that is neither a key of the mapping
\* nor the name of a property every object inherits, and reading .id or .arn of
\* undefined throws a TypeError.  For an inherited name accounts[stack] is the
\* inherited value and nothing throws.
Throws(accs, stack) == stack \notin DOMAIN accs /\ stack \notin InheritedNames

\* (accounts) => accounts[stack].id: an inherited value has no id.
AccountIdOf(accs, stack) == IF stack \in DOMAIN accs THEN accs[stack].id ELSE Undefined

\* (accounts) => accounts[stack].arn: an inherited value has no arn.
RoleArnOf(accs, stack) == IF stack \in DOMAIN accs THEN accs[stack].arn ELSE UndefinedArn

\* The name a resource is registered under: `${project}-...-${stack}`.
Urn(p, stack, n) == [proj |-> p, stack |-> stack, name |-> n]

\* allowedAccountIds as the provider receives it: an undefined entry is no account.
Restriction(prov) == prov.allowedAccountIds \ {Undefined}

\* The account the provider's credentials are of: that of the role it assumes,
\* and the ambient one when it is given no role.
AssumedAccount(prov) ==
  IF prov.roleArn = UndefinedArn THEN RootAccount ELSE prov.roleArn.account

\* AccountVia with the provider option dropped: the ambient credentials are used.
AccountViaAmbient(via, prov) == IF via \in {"scoped", "default"} THEN RootAccount ELSE via

\* The account a call through a provider lands in.
AccountVia(via, prov) ==
  IF via = "scoped" THEN AssumedAccount(prov)
  ELSE IF via = "default" THEN RootAccount
  ELSE via

Attr(p, n) == IF n = "listenerRule" THEN domain(p) ELSE ""

\* The declaration is of a DNS record: new cf.Record(...).
IsDnsRecord(p, n) == Program(p)[n].kind = "resource" /\ Program(p)[n].via = "cloudflare"

\* name: of a DNS record, by its labels.  That of the service's record is the
\* literal "api"; those of the shared project's derive from the SES identity,
\* the DKIM token and the certificate.
RecordName(n) ==
  IF n = "appDomainRecord" THEN <<"api">>
  ELSE IF n = "sesRecordVerificationRecord" THEN <<"_amazonses">>
  ELSE IF n = "certificateValidationRecord" THEN <<"_acm-validation">>
  ELSE <<n, "_domainkey">>

\* type: of a DNS record.
RecordType(n) == IF n = "sesRecordVerificationRecord" THEN "TXT" ELSE "CNAME"

\* A DNS record is known to Cloudflare by its zone, name and type.
DnsId(stack, n) == [scope |-> cfZoneId(stack), name |-> RecordName(n), type |-> RecordType(n)]

\* The name the provider generates for a resource the program gives none:
\* the logical name `${project}-...-${stack}` with a suffix, one per URN.
AutoId(p, stack, n) == [scope |-> <<>>, name |-> <<p, n, stack>>, type |-> "auto"]

\* A listener is known to AWS by its load balancer and its port (443).
ListenerId(stack) == [scope |-> AutoId("shared", stack, "loadBalancer").name, name |-> <<"443">>, type |-> "listener"]

\* PhysicalId with the service declaring, for its listener rule, a listener on
\* port 443 of the shared load balancer.
PhysicalIdOwnListener(p, stack, n) ==
  IF IsDnsRecord(p, n) THEN DnsId(stack, n)
  ELSE IF n = "listener" \/ (p \in Services /\ n = "listenerRule") THEN ListenerId(stack)
  ELSE AutoId(p, stack, n)

\* What the provider knows a resource by.
PhysicalId(p, stack, n) ==
  IF IsDnsRecord(p, n) THEN DnsId(stack, n)
  ELSE IF n = "listener" THEN ListenerId(stack)
  ELSE AutoId(p, stack, n)

\* What a declaration creates, through the provider its options name.
Record(p, stack, n, prov) ==
  [urn |-> Urn(p, stack, n),
   by |-> p,
   via |-> Program(p)[n].via,
   account |-> AccountVia(Program(p)[n].via, prov),
   attr |-> Attr(p, n)]

Put(c, r) == {x \in c : x.urn # r.urn} \cup {r}

\* What the provider knows an existing resource by.
IdOf(x) == PhysicalId(x.urn.proj, x.urn.stack, x.urn.name)

\* A resource of another declaration holds the identity; a generated name is
\* never met.
Conflicts(c, p, stack, n) ==
  /\ PhysicalId(p, stack, n).type # "auto"
  /\ \E x \in c : x.urn # Urn(p, stack, n) /\ IdOf(x) = PhysicalId(p, stack, n)

(***************************************************************************)
(* Operations                                                              *)
(***************************************************************************)

\* pulumi up on a stack: the engine refuses a stack that has an update in
\* progress, and nothing else.  Deployments of different stacks overlap.
CanStart(d) == ~Running(d)

Start(d) ==
  /\ CanStart(d)
  /\ runs' = [runs EXCEPT ![d] = [IdleRun EXCEPT !.status = "running"]]
  /\ started' = started + 1
  /\ UNCHANGED <<deployed, cloud>>

\* Resolved with an undeployed stack taken for a deployed one.
ResolvedAlways(ps) == TRUE

\* Whether a stack has outputs to read: it has been deployed successfully.
Resolved(ps) == ps \in deployed

\* new pulumi.StackReference(...): reads the outputs the target stack has published.
ReadStackReference(d, n) ==
  /\ Program(d[1])[n].kind = "stackref"
  /\ Ready(d, n)
  /\ LET st == IF Resolved(Target(n, d[2])) THEN "ok" ELSE "missing"
     IN runs' = [runs EXCEPT ![d].snap[n] = st, ![d].done = @ \cup {n}]
  /\ UNCHANGED <<deployed, cloud, started>>

\* accounts.apply((accounts) => accounts[stack].id) and (... .arn): throws when the
\* output is undefined or accounts[stack] is; otherwise its result, which may be
\* undefined, becomes the provider's input.
ApplyAccounts(d, n) ==
  /\ Program(d[1])[n].kind = "apply"
  /\ Ready(d, n)
  /\ LET run == runs[d]
         ok == GetOutput(run, d[2], "awsMainStack", "accounts") /\ ~Throws(accounts, d[2])
         prov == IF ~ok THEN run.provider
                 ELSE IF n = "accountId"
                      THEN [run.provider EXCEPT !.allowedAccountIds = {AccountIdOf(accounts, d[2])}]
                      ELSE [run.provider EXCEPT !.roleArn = RoleArnOf(accounts, d[2])]
     IN runs' = [runs EXCEPT ![d] =
                   [run EXCEPT !.log = @ \cup ReadLog(run, d[2], n, d[1]),
                               !.provider = prov,
                               !.done = IF ok THEN @ \cup {n} ELSE @,
                               !.bad = IF ok THEN @ ELSE @ \cup {n}]]
  /\ UNCHANGED <<deployed, cloud, started>>

\* new aws.Provider("scoped-provider", ...): the provider refuses to configure when
\* it is restricted to accounts its credentials are not of.
ConstructProvider(d, n) ==
  /\ Program(d[1])[n].kind = "provider"
  /\ Ready(d, n)
  /\ LET run == runs[d]
         ok == Restriction(run.provider) = {} \/ AssumedAccount(run.provider) \in Restriction(run.provider)
     IN runs' = [runs EXCEPT ![d] =
                   [run EXCEPT !.done = IF ok THEN @ \cup {n} ELSE @,
                               !.bad = IF ok THEN @ ELSE @ \cup {n}]]
  /\ UNCHANGED <<deployed, cloud, started>>

\* cf.Zone.get(...), aws.getAvailabilityZones(...): reads, nothing is created.
Lookup(d, n) ==
  /\ Program(d[1])[n].kind = "lookup"
  /\ Ready(d, n)
  /\ runs' = [runs EXCEPT ![d].done = @ \cup {n}]
  /\ UNCHANGED <<deployed, cloud, started>>

\* InputsDefined with undefined outputs let through (vpc?.vpcId).
InputsAssumed(run, stack, n, p) == TRUE

\* Every stack-reference output the callback reads is defined.
InputsDefined(run, stack, n, p) == \A e \in ReadLog(run, stack, n, p) : e.defined

\* vpc.apply((vpc) => vpc.vpcId), listener.apply((l) => l.arn), ...: the callback
\* runs in a turn of its own and throws when the output is undefined;
\* sesDomainDkim.dkimTokens.apply(...) declares the DKIM records.
Apply(d, n) ==
  /\ Program(d[1])[n].kind = "callback"
  /\ Ready(d, n)
  /\ LET run == runs[d]
         ok == InputsDefined(run, d[2], n, d[1])
     IN runs' = [runs EXCEPT ![d] =
                   [run EXCEPT !.log = @ \cup ReadLog(run, d[2], n, d[1]),
                               !.done = IF ok THEN @ \cup {n} ELSE @,
                               !.bad = IF ok THEN @ ELSE @ \cup {n}]]
  /\ UNCHANGED <<deployed, cloud, started>>

\* new <Resource>(name, args, opts): once its inputs are known the resource is
\* created through its provider, which refuses when a resource of another
\* declaration holds its identity.
Register(d, n) ==
  /\ Program(d[1])[n].kind = "resource"
  /\ Ready(d, n)
  /\ IF Conflicts(cloud, d[1], d[2], n)
     THEN /\ runs' = [runs EXCEPT ![d].bad = @ \cup {n}]
          /\ cloud' = cloud
     ELSE /\ runs' = [runs EXCEPT ![d].done = @ \cup {n}]
          /\ cloud' = Put(cloud, Record(d[1], d[2], n, runs[d].provider))
  /\ UNCHANGED <<deployed, started>>

\* What is kept of a run once it has ended.
Ended(status) == [IdleRun EXCEPT !.status = status]

\* The program has nothing left to do: the run succeeds and publishes the stack's
\* outputs when nothing threw, and fails otherwise.
Finish(d) ==
  /\ Running(d)
  /\ \A n \in Nodes(d[1]) : ~Ready(d, n)
  /\ LET ok == runs[d].done = Nodes(d[1])
     IN /\ runs' = [runs EXCEPT ![d] = Ended(IF ok THEN "succeeded" ELSE "failed")]
        /\ deployed' = IF ok THEN deployed \cup {d} ELSE deployed
  /\ UNCHANGED <<cloud, started>>

\* What a declaration does when the engine executes it.
Execute(d, n) ==
  \/ ReadStackReference(d, n)
  \/ ApplyAccounts(d, n)
  \/ ConstructProvider(d, n)
  \/ Lookup(d, n)
  \/ Apply(d, n)
  \/ Register(d, n)

\* The engine executes a declaration of a run, or ends the run.
Work(d) ==
  \/ \E n \in Nodes(d[1]) : Execute(d, n)
  \/ Finish(d)

\* The operator deploys a stack; the behaviours explored have MaxDeploys
\* deployments after the initial state.
Deploy(d) == started < MaxDeploys /\ Start(d)

\* The stacks of the consuming projects deployed so far.
ConsumerDeploys == {e \in Consumers \X Stacks : runs[e].status # "idle"}

\* The same from nothing: the behaviours explored have MaxConsumerDeploys
\* deployments of a consuming project, before, during or after those of the
\* aws project.
DeployFromNothing(d) ==
  /\ d[1] \in Consumers => Cardinality(ConsumerDeploys) < MaxConsumerDeploys
  /\ Deploy(d)

Step(d) == DeployFromNothing(d) \/ Work(d)

\* The stacks of the repository's three projects.
Repository == {d \in Deployments : d[1] # "web"}

Next == \E d \in Repository : Step(d)

Spec == Init /\ [][Next]_vars

ResourcesOf(p, stack, prov) ==
  {Record(p, stack, n, prov) : n \in {m \in Nodes(p) : Program(p)[m].kind = "resource"}}

(***************************************************************************)
(* Deployments of the shared and the service project for "dev", from the   *)
(* state in which the aws project is deployed.                             *)
(***************************************************************************)

InitLive ==
  /\ deployed = {<<"aws", AwsStack>>}
  /\ runs = [d \in Deployments |-> IF d[1] = "aws" THEN Ended("succeeded") ELSE IdleRun]
  /\ cloud = ResourcesOf("aws", AwsStack, NoProvider)
  /\ started = 0

Dev == {<<"shared", "dev">>, <<"api", "dev">>}

\* The stack references a program declares.
RefsOf(p) == {n \in Nodes(p) : Program(p)[n].kind = "stackref"}

\* The stacks whose outputs a run for a stack reads.
Producers(d) == {Target(r, d[2]) : r \in RefsOf(d[1])}

\* The operator deploys a stack once the stacks it reads are deployed.
DeployAfterProducers(d) == Producers(d) \subseteq deployed /\ Deploy(d)

NextLive ==
  \/ \E d \in Dev : DeployAfterProducers(d)
  \/ \E d \in Dev : Work(d)

\* The steps the engine owes a run: it executes what is ready, and ends the run
\* when nothing is.
Progress(d) ==
  \/ \E n \in {m \in Nodes(d[1]) : Ready(d, m)} : Execute(d, n)
  \/ Finish(d)

\* The same, by a fair engine.
FairSpec == InitLive /\ [][NextLive]_vars /\ \A d \in Dev : WF_vars(Progress(d))

(***************************************************************************)
(* The service project deployed for "dev" in each of the states the shared *)
(* project can be in: not deployed, deployed, and being deployed, with its *)
(* database left to create while the service's run goes on.                *)
(***************************************************************************)

DevProvider ==
  [allowedAccountIds |-> {AccountIdOf(accounts, "dev")}, roleArn |-> RoleArnOf(accounts, "dev")]

InitShared ==
  /\ deployed = {<<"aws", AwsStack>>, <<"shared", "dev">>}
  /\ runs = [d \in Deployments |-> IF d[1] \in {"aws", "shared"} /\ d[2] \in {AwsStack, "dev"}
                                    THEN Ended("succeeded") ELSE IdleRun]
  /\ cloud = ResourcesOf("aws", AwsStack, NoProvider) \cup ResourcesOf("shared", "dev", DevProvider)
  /\ started = 0

\* What a shared run creates last: the availability zones are looked up for the
\* database cluster, and the instance is created in the cluster.
Database == {"availabilityZones", "rdsCluster", "rdsInstance"}

\* The shared run for "dev" with the database left to create.
DatabaseLeft ==
  LET read == [IdleRun EXCEPT !.status = "running", !.snap["awsMainStack"] = "ok"]
  IN [read EXCEPT !.done = Nodes("shared") \ Database,
                  !.provider = DevProvider,
                  !.log = UNION {ReadLog(read, "dev", n, "shared") : n \in Nodes("shared")}]

InitSharing ==
  /\ deployed = {<<"aws", AwsStack>>}
  /\ runs = [d \in Deployments |->
               IF d[1] = "aws" THEN Ended("succeeded")
               ELSE IF d = <<"shared", "dev">> THEN DatabaseLeft
               ELSE IdleRun]
  /\ cloud = ResourcesOf("aws", AwsStack, NoProvider)
               \cup {r \in ResourcesOf("shared", "dev", DevProvider) : r.urn.name \notin Database}
  /\ started = 0

InitService == InitLive \/ InitShared \/ InitSharing

NextService ==
  \/ Deploy(<<"api", "dev">>)
  \/ \E d \in Dev : Work(d)

SpecService == InitService /\ [][NextService]_vars

(***************************************************************************)
(* Two service projects deployed side by side in the environment "dev":    *)
(* every interleaving of their resource creations, from the state in which *)
(* the aws and shared projects are deployed and each service's run has     *)
(* read its stack references, run its callbacks and built its provider.    *)
(***************************************************************************)

\* The declarations of a program that create nothing.
Prelude(p) == {n \in Nodes(p) : Program(p)[n].kind \notin {"resource", "lookup"}}

\* A run for "dev" that has executed its prelude with every producer deployed.
PreludeRun(p) ==
  LET read == [IdleRun EXCEPT !.status = "running", !.snap = [r \in RefNames |-> "ok"]]
  IN [read EXCEPT !.done = Prelude(p),
                  !.provider = DevProvider,
                  !.log = UNION {ReadLog(read, "dev", n, p) : n \in Prelude(p)}]

TwoServices == Services \X {"dev"}

InitTwo ==
  /\ deployed = {<<"aws", AwsStack>>, <<"shared", "dev">>}
  /\ runs = [d \in Deployments |->
               IF d \in TwoServices THEN PreludeRun(d[1])
               ELSE IF d \in deployed THEN Ended("succeeded")
               ELSE IdleRun]
  /\ cloud = ResourcesOf("aws", AwsStack, NoProvider) \cup ResourcesOf("shared", "dev", DevProvider)
  /\ started = 2

ServiceStep(d) ==
  \/ \E n \in Nodes(d[1]) : Register(d, n)
  \/ Finish(d)

NextTwo == \E d \in TwoServices : ServiceStep(d)

SpecTwo == InitTwo /\ [][NextTwo]_vars

(***************************************************************************)
(* Properties                                                              *)
(***************************************************************************)

ConsumerStacks == Consumers \X Stacks

IsResource(p, n) == Program(p)[n].kind = "resource"

\* The resources a run has created so far.
Created(d) == {n \in runs[d].done : IsResource(d[1], n)}

RECURSIVE Ancestors(_, _)
Ancestors(p, S) ==
  LET T == S \cup UNION {Deps(p, n) : n \in S}
  IN IF T = S THEN S ELSE Ancestors(p, T)

\* The stack-reference outputs a declaration references, itself or through what it references.
Referenced == [p \in Projects |-> [n \in Nodes(p) |-> UNION {Program(p)[m].reads : m \in Ancestors(p, {n})}]]

\* Resolution of a stack present in the mapping yields its record, non-empty.
ResolvesRecord(d) ==
  LET run == runs[d]
  IN d[2] \in DOMAIN accounts =>
       /\ "accountId" \in run.done =>
            /\ run.provider.allowedAccountIds = {accounts[d[2]].id}
            /\ accounts[d[2]].id \notin {"", Undefined}
       /\ "roleArn" \in run.done =>
            /\ run.provider.roleArn = accounts[d[2]].arn
            /\ run.provider.roleArn \notin {NoArn, UndefinedArn}
       /\ run.snap["awsMainStack"] = "ok" => run.bad \cap {"accountId", "roleArn"} = {}

\* C1: a stack in the Accounts Mapping resolves to its record, with a non-empty
\* identifier and role; for a stack absent from the mapping the run fails at
\* account resolution: neither callback returns, the scoped provider is never
\* constructed, no resource that goes through it (in particular no network
\* resource) is created, in the run or ever, and the stack is never deployed.
\* (Read for the resources that reference the provider: one that references
\* nothing of it, the database password, is created whatever the stack.)
C1_AbsentStackFails ==
  /\ \A d \in ConsumerStacks :
       Running(d) =>
         /\ ResolvesRecord(d)
         /\ d[2] \notin DOMAIN accounts =>
              /\ {"accountId", "roleArn", "provider"} \cap runs[d].done = {}
              /\ \A n \in Created(d) : Program(d[1])[n].via # "scoped" /\ "provider" \notin Deps(d[1], n)
              /\ "vpc" \notin runs[d].done
  /\ \A c \in cloud : c.via = "scoped" => c.urn.stack \in DOMAIN accounts
  /\ \A d \in deployed : d[1] \in Consumers => d[2] \in DOMAIN accounts

\* C2: for a stack in the Accounts Mapping, the scoped provider of the shared and
\* of the service project is restricted to exactly the identifier of the stack's
\* record and assumes exactly its role, and every resource created through a scoped
\* provider for such a stack lies in the account of the stack's record, whichever
\* project made it.
C2_ScopedToAccount ==
  /\ \A d \in ConsumerStacks :
       (Running(d) /\ "provider" \in runs[d].done /\ d[2] \in DOMAIN accounts) =>
         /\ runs[d].provider.allowedAccountIds = {accounts[d[2]].id}
         /\ Restriction(runs[d].provider) = {accounts[d[2]].id}
         /\ runs[d].provider.roleArn = accounts[d[2]].arn
  /\ \A c \in cloud :
       (c.via = "scoped" /\ c.urn.stack \in DOMAIN accounts) => c.account = accounts[c.urn.stack].id

\* C2 witness: the shared and the service project have both created resources for
\* "dev" through their scoped providers.
C2_Witness ==
  /\ \E c \in cloud : c.urn = Urn("shared", "dev", "vpc") /\ c.account = DevAccountId
  /\ \E c \in cloud : c.urn = Urn("api", "dev", "repository") /\ c.account = DevAccountId
  /\ "provider" \in runs[<<"api", "dev">>].done

\* C3: every call a shared or service run has issued to AWS, to create a resource
\* or to look one up, went through the scoped provider of the run, none through
\* the default provider.  (The Cloudflare and random resources, which have no AWS
\* account, are left out: they go through no AWS provider at all.)
C3_AllThroughScopedProvider ==
  \A d \in ConsumerStacks :
    \A n \in runs[d].done :
      Program(d[1])[n].kind \in {"resource", "lookup"} => Program(d[1])[n].via # "default"

\* C4 as stated: no resource of a consuming project is created before all the
\* producing-project outputs the project references have been resolved.
C4_AllProjectOutputsFirst ==
  \A d \in ConsumerStacks :
    Created(d) # {} => \A r \in RefsOf(d[1]) : runs[d].snap[r] = "ok"

\* C4 amended: no resource of a consuming project is created before all the
\* producing-project outputs that the resource references, directly or through the
\* callbacks, the resources and the provider it references, have been resolved.
C4_ReferencedOutputsFirst ==
  \A d \in ConsumerStacks :
    \A n \in Created(d) :
      \A rd \in Referenced[d[1]][n] :
        /\ runs[d].snap[rd[1]] = "ok"
        /\ rd[2] \in Exports(Target(rd[1], d[2])[1])
        /\ [ref |-> rd[1], out |-> rd[2], defined |-> TRUE] \in runs[d].log

\* C4 witness: the service's listener rule has been created, which references the
\* shared listener and vpc and, through the provider, the accounts.
C4_Witness ==
  /\ "listenerRule" \in Created(<<"api", "dev">>)
  /\ Referenced["api"]["listenerRule"] = {<<"awsMainStack", "accounts">>, <<"shared", "vpc">>, <<"shared", "listener">>}

\* The resources of a service that take an output of the shared project, and the
\* callbacks that read it for them.
SharedDependents == {"targetGroup", "listenerRule", "securityGroup", "appService", "appDomainRecord"}

SharedCallbacks == {n \in Nodes("api") : Program("api")[n].kind = "callback"}

\* C5: when the shared project has not been deployed for the stack of a service
\* run, no callback over a shared output returns and no resource of the service
\* that depends on a shared output is created in the run, and the service stack
\* does not become deployed.
C5_NoSharedNoDependents ==
  /\ \A d \in Services \X Stacks :
       (Running(d) /\ runs[d].snap["shared"] = "missing") =>
         runs[d].done \cap (SharedDependents \cup SharedCallbacks) = {}
  /\ \A c \in cloud :
       (c.urn.proj \in Services /\ c.urn.name \in SharedDependents) => <<"shared", c.urn.stack>> \in deployed
  /\ \A d \in deployed : d[1] \in Services => <<"shared", d[2]>> \in deployed

\* C5 witness: a service run for "dev" found the shared stack undeployed; what
\* needs no shared output is created, every callback over a shared output has
\* thrown and nothing is left to do.
C5_Witness ==
  /\ Running(<<"api", "dev">>)
  /\ runs[<<"api", "dev">>].snap["shared"] = "missing"
  /\ "repository" \in runs[<<"api", "dev">>].done
  /\ SharedCallbacks \subseteq runs[<<"api", "dev">>].bad
  /\ \A n \in Nodes("api") : ~Ready(<<"api", "dev">>, n)

SharedCloud == {c \in cloud : c.by = "shared"}

\* The identities of the resources the shared program declares for a stack.
SharedIds(stack) == {PhysicalId("shared", stack, n) : n \in {m \in Nodes("shared") : IsResource("shared", m)}}

\* C6: the resources of the shared project are created and changed only by steps
\* of a shared run; a step of a service run leaves them as they are and adds only
\* resources of the service's own, none under the identity of a shared resource;
\* and no resource a service run has come to declare is one the shared program
\* declares for the stack.
C6_SharedOnlyByShared ==
  /\ [][/\ SharedCloud' # SharedCloud => \E s \in Stacks : runs'[<<"shared", s>>] # runs[<<"shared", s>>]
        /\ \A d \in Services \X Stacks :
             runs'[d] # runs[d] =>
               \A c \in cloud' \ cloud : c.by = d[1] /\ c.urn.proj = d[1] /\ IdOf(c) \notin SharedIds(d[2])]_vars
  /\ [](\A d \in Services \X Stacks :
          \A n \in Nodes(d[1]) :
            (IsResource(d[1], n) /\ (Ready(d, n) \/ n \in runs[d].done \cup runs[d].bad)) =>
              PhysicalId(d[1], d[2], n) \notin SharedIds(d[2]))

\* C6 witness: the service has attached its listener rule and DNS record while the
\* shared listener and load balancer exist.
C6_Witness ==
  /\ \E c \in cloud : c.urn = Urn("api", "dev", "listenerRule")
  /\ \E c \in cloud : c.urn = Urn("api", "dev", "appDomainRecord")
  /\ \E c \in cloud : c.urn = Urn("shared", "dev", "listener") /\ c.by = "shared"
  /\ \E c \in cloud : c.urn = Urn("shared", "dev", "loadBalancer") /\ c.by = "shared"

RuleOf(p) == {c \in cloud : c.by = p /\ c.urn.name = "listenerRule"}

\* C7: two services with different host headers, their resource creations
\* interleaved in "dev": no run fails, has a creation refused or is left waiting,
\* and once a service has created its listener rule the rule stays in place, its
\* own, with its own host header, whatever the other service does.
C7_RulesCoexist ==
  \A d \in TwoServices :
    /\ runs[d].status # "failed"
    /\ runs[d].bad = {}
    /\ (Running(d) /\ runs[d].done # Nodes(d[1])) => \E n \in Nodes(d[1]) : Ready(d, n)
    /\ ("listenerRule" \in runs[d].done \/ runs[d].status = "succeeded") =>
         /\ RuleOf(d[1]) # {}
         /\ \A c \in RuleOf(d[1]) : c.attr = domain(d[1]) /\ c.urn = Urn(d[1], "dev", "listenerRule")

\* The stages of the DNS and certificate chain, in the order of the claim: those
\* of the SES domain, then those of the certificate.  (The verification token is
\* an output of the domain identity, not a resource of its own.)
SesChain == << "sesDomainIdentity", "sesRecordVerificationRecord", "sesDomainVerification" >>

CertificateChain == << "certificate", "certificateValidationRecord", "certificateValidation" >>

InOrder(chain) ==
  \A s \in Stacks :
    \A i \in 2 .. Len(chain) :
      chain[i] \in runs[<<"shared", s>>].done => chain[i - 1] \in runs[<<"shared", s>>].done

\* C9: in the SES stages and in the certificate stages, no stage's resource is
\* created while the resource of the stage before it does not exist; in particular
\* the certificate validation is not created before the domain-validation DNS
\* record exists.
C9_ChainInOrder == InOrder(SesChain) /\ InOrder(CertificateChain)

\* C10: a run never waits on itself: while a run has declarations left and nothing
\* has failed, one of them is ready; and a run of the shared or the service
\* project started with its producing stacks deployed and its stack in the
\* Accounts Mapping ends with the stack deployed and all its resources created.
C10_RunsComplete ==
  /\ [](\A d \in Deployments :
          (Running(d) /\ runs[d].bad = {} /\ runs[d].done # Nodes(d[1])) => \E n \in Nodes(d[1]) : Ready(d, n))
  /\ \A d \in Dev :
       (/\ Running(d)
        /\ runs[d].done = {}
        /\ d[2] \in DOMAIN accounts
        /\ Producers(d) \subseteq deployed)
         ~> (runs[d].status = "succeeded" /\ d \in deployed /\ ResourcesOf(d[1], d[2], DevProvider) \subseteq cloud)

\* C10 witness: the shared and the service project are both deployed for "dev",
\* with the last resource of each in place.
C10_Witness ==
  /\ runs[<<"shared", "dev">>].status = "succeeded"
  /\ runs[<<"api", "dev">>].status = "succeeded"
  /\ \E c \in cloud : c.urn = Urn("shared", "dev", "rdsInstance")
  /\ \E c \in cloud : c.urn = Urn("api", "dev", "appService")

====
